---- MODULE Spec2Model ----
(***************************************************************************)
(* examples/Whisper_prompting_guide.ipynb as a state machine.              *)
(*                                                                         *)
(* The notebook defines two functions, transcribe and                      *)
(* fictitious_prompt_from_instruction, each a single blocking call to an   *)
(* external service, and seventeen code cells that call them.  The state   *)
(* is the kernel's (the globals client and prompt, the defined functions,  *)
(* the position of the single thread of control), the local file system    *)
(* (the audio files and the handles open on them) and the requests that    *)
(* are outstanding at the external services.                               *)
(*                                                                         *)
(* Two specifications share the functions' steps:                          *)
(*   Spec       one run of the notebook, cells in order, stopping at the   *)
(*              first uncaught exception;                                  *)
(*   SpecCalls  a caller that invokes the two functions with arbitrary     *)
(*              arguments, MaxCalls times.                                 *)
(***************************************************************************)
EXTENDS Naturals, Sequences, FiniteSets, TLC

VARIABLES
    pc,             \* where the thread of control is
    frame,          \* the arguments of the function call in progress
    inflight,       \* the requests outstanding at the external services
    reply,          \* what the service answered to the call in progress
    outcome,        \* how the last function call ended: a value or an exception
    sent,           \* requests issued by the function call in progress
    files,          \* local file system: the state of each audio file
    handles,        \* local file system: open handles per path
    held,           \* the handle the last transcribe opened is still open
    client,         \* global `client`
    prompt,         \* global `prompt`
    defs,           \* the functions `def` has bound
    env,            \* os.environ["OPENAI_API_KEY"]
    requests,       \* history: every request issued, in order, with its call
    lastGenerated,  \* history: the text the last returning generation returned
    before,         \* history: the local state when the call in progress began
    cell,           \* notebook run: the cell being executed (execution count)
    stmt,           \* notebook run: the statement of that cell
    halted,         \* notebook run: an exception stopped it
    calls,          \* the number of function calls made so far
    fileLog         \* history: every fetch of a URL and every write to a file

vars ==
    <<pc, frame, inflight, reply, outcome, sent, files, handles, held, client,
      prompt, defs, env, requests, lastGenerated, before, cell, stmt, halted,
      calls, fileLog>>

----------------------------------------------------------------------------
\* Bounds of the model.

\* SpecCalls: the number of calls the caller makes.
MaxCalls == 3

\* How many tokens longer than the service's prompt window the long texts are.
ExtraTokens == 1

----------------------------------------------------------------------------
\* Python values.  A string is the sequence of its tokens (whitespace-delimited
\* chunks); None and an unbound name are values of their own.

Str(tokens) == [type |-> "str", val |-> tokens]

None == [type |-> "NoneType", val |-> <<>>]

Unbound == [type |-> "unbound", val |-> <<>>]

\* The outcome of a function call.
Return(value) == [kind |-> "return", value |-> value, error |-> "none"]

Raise(error) == [kind |-> "raise", value |-> Unbound, error |-> error]

NoOutcome == [kind |-> "none", value |-> Unbound, error |-> "none"]

----------------------------------------------------------------------------
\* Program constants.

\* "the prompt is limited to only 224 tokens"
PromptWindow == 224

up_first_remote_filepath ==
    "https://cdn.openai.com/API/examples/data/upfirstpodcastchunkthree.wav"

bbq_plans_remote_filepath ==
    "https://cdn.openai.com/API/examples/data/bbq_plans.wav"

product_names_remote_filepath ==
    "https://cdn.openai.com/API/examples/data/product_names.wav"

up_first_filepath == "data/upfirstpodcastchunkthree.wav"

bbq_plans_filepath == "data/bbq_plans.wav"

product_names_filepath == "data/product_names.wav"

Paths == {up_first_filepath, bbq_plans_filepath, product_names_filepath}

PlaceholderKey == "<your OpenAI API key if not set as env var>"

SystemMessage ==
    "You are a transcript generator. Your task is to create one long paragraph of a fictional conversation. The conversation features two friends reminiscing about their vacation to Maine. Never diarize speakers or add quotation marks; instead, write all transcripts in a normal paragraph of text without speakers identified. Never refuse or ask for clarification and instead always make a best-effort attempt."

EllipsesInstruction == "Instead of periods, end every sentence with elipses."

SouthernInstruction == "Write in a deep, heavy, Southern accent."

Instructions == {EllipsesInstruction, SouthernInstruction}

\* The prompt literals of cells 5, 6, 7, 9, 11, 12 and 13.
Prompt5 ==
    <<"president", "biden.">>

Prompt6 ==
    <<"i", "have", "some", "advice", "for", "you.", "multiple", "sentences", "help",
    "establish", "a", "pattern.", "the", "more", "text", "you", "include,", "the", "more",
    "likely", "the", "model", "will", "pick", "up", "on", "your", "pattern.", "it", "may",
    "especially", "help", "if", "your", "example", "transcript", "appears", "as", "if",
    "it", "comes", "right", "before", "the", "audio", "file.", "in", "this", "case,",
    "that", "could", "mean", "mentioning", "the", "contacts", "i", "stick", "in", "my",
    "eyes.">>

Prompt7 ==
    <<"Hi", "there", "and", "welcome", "to", "the", "show.", "###", "Today", "we", "are",
    "quite", "excited.", "###", "Let's", "jump", "right", "in.", "###">>

Prompt9 ==
    <<"QuirkQuid", "Quill", "Inc,", "P3-Quattro,", "O3-Omni,", "B3-BondX,", "E3-Equity,",
    "W3-WrapZ,", "O2-Outlier,", "U3-UniFund,", "M3-Mover">>

Prompt11 ==
    <<"Friends:", "Aimee,", "Shawn">>

Prompt12 ==
    <<"Glossary:", "Aimee,", "Shawn,", "BBQ,", "Whisky,", "Doughnuts,", "Omelet">>

Prompt13 ==
    <<"Aimee", "and", "Shawn", "ate", "whisky,", "doughnuts,", "omelets", "at", "a",
    "BBQ.">>

----------------------------------------------------------------------------
\* The external services (not code of the notebook): what they may answer.

\* A text longer than the prompt window: one token that the window drops, then
\* PromptWindow + ExtraTokens - 1 more.
LongText ==
    Str([i \in 1..(PromptWindow + ExtraTokens) |-> IF i = 1 THEN "Remember" ELSE "Maine"])

\* Transcript texts the transcription service may return.
Texts == {Str(<<>>), Str(<<"I", "stick", "contacts", "in", "my", "eyes.">>)}

\* Message contents the chat service may return: the field is optional.
Contents == {None, Str(<<>>), LongText}

\* The choices of a chat response: the first one and possibly a further one.
ChoiceLists ==
    {<<[message |-> [role |-> "assistant", content |-> c]]>> : c \in Contents}
    \cup {<<[message |-> [role |-> "assistant", content |-> c]],
            [message |-> [role |-> "assistant", content |-> LongText]]>> :
              c \in {Str(<<>>)}}

\* The failures the client raises: authentication, network, malformed file,
\* service-side rejection.
ServiceErrors ==
    {"AuthenticationError", "APIConnectionError", "BadRequestError", "InternalServerError"}

NoReply == [status |-> "none", text |-> Unbound, choices |-> <<>>, error |-> "none"]

OkText(text) == [status |-> "ok", text |-> text, choices |-> <<>>, error |-> "none"]

OkChoices(choices) ==
    [status |-> "ok", text |-> Unbound, choices |-> choices, error |-> "none"]

Failure(error) == [status |-> "error", text |-> Unbound, choices |-> <<>>, error |-> error]

TranscriptionReplies == {OkText(t) : t \in Texts} \cup {Failure(e) : e \in ServiceErrors}

ChatReplies == {OkChoices(cs) : cs \in ChoiceLists} \cup {Failure(e) : e \in ServiceErrors}

DownloadReplies == {OkText(Unbound), Failure("URLError")}

----------------------------------------------------------------------------
\* The asynchronous client class in the place of OpenAI: create() hands back a
\* coroutine at once and nothing waits for the answer.
ClientModeAsync == "async"

\* Cell 1: the client.  OpenAI is the synchronous client class: each create()
\* call blocks the calling thread until the service has answered.

ClientMode == "sync"

\* os.environ.get("OPENAI_API_KEY") with no default: None when the variable is
\* not set.
ApiKeyWithoutDefault(environ) == IF environ = Unbound THEN None ELSE environ

\* os.environ.get("OPENAI_API_KEY", "<your OpenAI API key if not set as env var>")
ApiKey(environ) == IF environ = Unbound THEN Str(<<PlaceholderKey>>) ELSE environ

\* OpenAI(api_key=...): the client holds the key it was given.
NewClient(environ) == [type |-> "OpenAI", val |-> ApiKey(environ).val]

----------------------------------------------------------------------------
\* transcribe(audio_filepath, prompt)

\* Events of the local file system's history: a URL fetched towards a local
\* file, and a local file written (created, truncated or overwritten).
Fetch(url, filename) == [op |-> "fetch", url |-> url, filename |-> filename]

Write(filename) == [op |-> "write", url |-> "", filename |-> filename]

\* open(audio_filepath, "rb")
FileHandle(audio_filepath) == [name |-> audio_filepath, mode |-> "rb"]

\* transcribe trimming the prompt to the service's window before sending it.
TranscriptionRequestTruncating(file, p) ==
    [file |-> file,
     model |-> "whisper-1",
     prompt |-> IF Len(p.val) > PromptWindow
                THEN Str(SubSeq(p.val, Len(p.val) - PromptWindow + 1, Len(p.val)))
                ELSE p]

\* The keyword arguments of client.audio.transcriptions.create.
TranscriptionRequest(file, p) == [file |-> file, model |-> "whisper-1", prompt |-> p]

\* A retry loop around create(): a failed request is sent once more.
OnReplyRetry(r, n) == IF r.status = "error" /\ n < 2 THEN "resend" ELSE "finish"

\* What the function does with the answer to its request: there is no loop and no
\* except clause around the call, so whatever the answer, the function finishes.
OnReply(r, n) == "finish"

\* An except clause around create() that returns an empty transcript.
TranscribeResultSwallowing(r) ==
    IF r.status = "ok" THEN Return(r.text) ELSE Return(Str(<<>>))

\* return transcript.text; an exception of create() is not caught.
TranscribeResult(r) == IF r.status = "ok" THEN Return(r.text) ELSE Raise(r.error)

NoFrame == [fn |-> "none", audio_filepath |-> "", prompt |-> Unbound, instruction |-> ""]

TranscribeFrame(audio_filepath, p) ==
    [fn |-> "transcribe", audio_filepath |-> audio_filepath, prompt |-> p,
     instruction |-> ""]

\* The local state a call could change.
Snapshot == [files |-> files, client |-> client, prompt |-> prompt, defs |-> defs]

\* The call: the arguments are bound, nothing else happens yet.
CallTranscribe(audio_filepath, p) ==
    /\ pc = "idle"
    /\ "transcribe" \in defs
    /\ pc' = "t_open"
    /\ frame' = TranscribeFrame(audio_filepath, p)
    /\ sent' = 0
    /\ reply' = NoReply
    /\ outcome' = NoOutcome
    /\ held' = FALSE
    /\ before' = Snapshot
    /\ calls' = calls + 1
    /\ UNCHANGED <<inflight, files, handles, client, prompt, defs, env,
                   requests, lastGenerated, fileLog>>

\* The path handed to create() as it is, for the client to open the file while
\* it uploads: nothing is opened, and nothing can fail, before the request.
TranscribeOpenDeferred ==
    /\ pc = "t_open"
    /\ pc' = "t_send"
    /\ UNCHANGED <<frame, inflight, reply, outcome, sent, files, handles, held,
                   client, prompt, defs, env, requests, lastGenerated, before,
                   cell, stmt, halted, calls, fileLog>>

\* client.audio.transcriptions.create is looked up, then file=open(...) is
\* evaluated: a missing file raises before anything is sent.
TranscribeOpen ==
    /\ pc = "t_open"
    /\ IF client = Unbound
       THEN /\ outcome' = Raise("NameError")
            /\ pc' = "returned"
            /\ UNCHANGED <<handles, held, fileLog>>
       ELSE IF files[frame.audio_filepath] = "absent"
       THEN /\ outcome' = Raise("FileNotFoundError")
            /\ pc' = "returned"
            /\ UNCHANGED <<handles, held, fileLog>>
       ELSE /\ handles' = [handles EXCEPT ![frame.audio_filepath] = @ + 1]
            /\ held' = TRUE
            /\ fileLog' = IF FileHandle(frame.audio_filepath).mode = "rb"
                          THEN fileLog
                          ELSE Append(fileLog, Write(frame.audio_filepath))
            /\ pc' = "t_send"
            /\ UNCHANGED outcome
    /\ UNCHANGED <<frame, inflight, reply, sent, files, client, prompt, defs, env,
                   requests, lastGenerated, before, cell, stmt,
                   halted, calls>>

\* create(file=..., model="whisper-1", prompt=prompt): the request goes out.
TranscribeSend ==
    /\ pc = "t_send"
    /\ LET req == TranscriptionRequest(FileHandle(frame.audio_filepath), frame.prompt)
       IN  /\ inflight' = Append(inflight, [service |-> "transcription", req |-> req])
           /\ requests' = Append(requests, [call |-> frame, req |-> req])
    /\ sent' = sent + 1
    /\ IF ClientMode = "sync"
       THEN pc' = "t_wait" /\ UNCHANGED outcome
       ELSE pc' = "returned" /\ outcome' = Return(Unbound)
    /\ UNCHANGED <<frame, reply, files, handles, held, client, prompt, defs, env,
                   lastGenerated, before, cell, stmt, halted, calls, fileLog>>

\* The transcription service answers the outstanding request.
TranscriptionRespond ==
    /\ pc = "t_wait"
    /\ inflight # <<>>
    /\ Head(inflight).service = "transcription"
    /\ \E r \in TranscriptionReplies : reply' = r
    /\ inflight' = Tail(inflight)
    /\ pc' = "t_recv"
    /\ UNCHANGED <<frame, outcome, sent, files, handles, held, client, prompt, defs,
                   env, requests, lastGenerated, before, cell,
                   stmt, halted, calls, fileLog>>

\* create() returns or raises, and so does transcribe.  The file object was never
\* closed by the code: whether its handle is closed by now is up to the runtime
\* (reference counting closes it, a traceback or a cycle keeps it open).
TranscribeReturn ==
    /\ pc = "t_recv"
    /\ IF OnReply(reply, sent) = "resend"
       THEN /\ pc' = "t_send"
            /\ UNCHANGED <<outcome, handles, held>>
       ELSE /\ outcome' = TranscribeResult(reply)
            /\ pc' = "returned"
            /\ \E closed \in BOOLEAN :
                 IF closed
                 THEN /\ handles' = [handles EXCEPT ![frame.audio_filepath] = @ - 1]
                      /\ held' = FALSE
                 ELSE UNCHANGED <<handles, held>>
    /\ UNCHANGED <<frame, inflight, reply, sent, files, client, prompt, defs, env,
                   requests, lastGenerated, before, cell, stmt,
                   halted, calls, fileLog>>

\* The runtime's garbage collector closes the file objects nothing refers to.
GarbageCollect ==
    /\ pc \in {"idle"}
    /\ \E path \in Paths : handles[path] > 0
    /\ handles' = [path \in Paths |-> 0]
    /\ held' = FALSE
    /\ UNCHANGED <<pc, frame, inflight, reply, outcome, sent, files, client, prompt,
                   defs, env, requests, lastGenerated, before,
                   cell, stmt, halted, calls, fileLog>>

----------------------------------------------------------------------------
\* fictitious_prompt_from_instruction(instruction)

\* The user message put before the system message.
ChatRequestUserFirst(instruction) ==
    [model |-> "gpt-4o-mini",
     temperature |-> 0,
     messages |-> <<[role |-> "user", content |-> instruction],
                    [role |-> "system", content |-> SystemMessage]>>]

\* A conversation kept across calls: the instructions of the earlier calls are
\* sent again ahead of the new one.
ChatRequestWithHistory(instruction) ==
    [model |-> "gpt-4o-mini",
     temperature |-> 0,
     messages |->
         <<[role |-> "system", content |-> SystemMessage]>>
         \o [i \in 1..Len(SelectSeq(requests, LAMBDA q : q.call.fn # "transcribe")) |->
                [role |-> "user",
                 content |-> SelectSeq(requests,
                                 LAMBDA q : q.call.fn # "transcribe")[i].call.instruction]]
         \o <<[role |-> "user", content |-> instruction]>>]

\* The keyword arguments of client.chat.completions.create.
ChatRequest(instruction) ==
    [model |-> "gpt-4o-mini",
     temperature |-> 0,
     messages |-> <<[role |-> "system", content |-> SystemMessage],
                    [role |-> "user", content |-> instruction]>>]

\* The last choice of the response taken in the place of the first.
FictitiousResultLastChoice(r) ==
    IF r.status = "ok"
    THEN Return(r.choices[Len(r.choices)].message.content)
    ELSE Raise(r.error)

\* fictitious_prompt = response.choices[0].message.content; return fictitious_prompt
FictitiousResult(r) ==
    IF r.status = "ok" THEN Return(r.choices[1].message.content) ELSE Raise(r.error)

FictitiousFrame(instruction) ==
    [fn |-> "fictitious_prompt_from_instruction", audio_filepath |-> "",
     prompt |-> Unbound, instruction |-> instruction]

CallFictitious(instruction) ==
    /\ pc = "idle"
    /\ "fictitious_prompt_from_instruction" \in defs
    /\ pc' = "f_send"
    /\ frame' = FictitiousFrame(instruction)
    /\ sent' = 0
    /\ reply' = NoReply
    /\ outcome' = NoOutcome
    /\ before' = Snapshot
    /\ calls' = calls + 1
    /\ UNCHANGED <<inflight, files, handles, held, client, prompt, defs, env,
                   requests, lastGenerated, fileLog>>

\* create(model="gpt-4o-mini", temperature=0, messages=[...]): the request goes out.
FictitiousSend ==
    /\ pc = "f_send"
    /\ IF client = Unbound
       THEN /\ outcome' = Raise("NameError")
            /\ pc' = "returned"
            /\ UNCHANGED <<inflight, requests, sent>>
       ELSE /\ LET req == ChatRequest(frame.instruction)
               IN  /\ inflight' = Append(inflight, [service |-> "chat", req |-> req])
                   /\ requests' = Append(requests, [call |-> frame, req |-> req])
            /\ sent' = sent + 1
            /\ IF ClientMode = "sync"
               THEN pc' = "f_wait" /\ UNCHANGED outcome
               ELSE pc' = "returned" /\ outcome' = Return(Unbound)
    /\ UNCHANGED <<frame, reply, files, handles, held, client, prompt, defs, env,
                   lastGenerated, before, cell, stmt, halted, calls, fileLog>>

\* The chat-completion service answers the outstanding request.
ChatRespond ==
    /\ pc = "f_wait"
    /\ inflight # <<>>
    /\ Head(inflight).service = "chat"
    /\ \E r \in ChatReplies : reply' = r
    /\ inflight' = Tail(inflight)
    /\ pc' = "f_recv"
    /\ UNCHANGED <<frame, outcome, sent, files, handles, held, client, prompt, defs,
                   env, requests, lastGenerated, before, cell,
                   stmt, halted, calls, fileLog>>

\* create() returns or raises, and so does fictitious_prompt_from_instruction.
FictitiousReturn ==
    /\ pc = "f_recv"
    /\ IF OnReply(reply, sent) = "resend"
       THEN /\ pc' = "f_send"
            /\ UNCHANGED <<outcome, lastGenerated>>
       ELSE /\ outcome' = FictitiousResult(reply)
            /\ pc' = "returned"
            /\ lastGenerated' =
                 IF FictitiousResult(reply).kind = "return"
                 THEN FictitiousResult(reply).value ELSE lastGenerated
    /\ UNCHANGED <<frame, inflight, reply, sent, files, handles, held, client, prompt,
                   defs, env, requests, before, cell, stmt, halted,
                   calls, fileLog>>

----------------------------------------------------------------------------
\* The notebook's code cells, by execution count, as sequences of statements.

CreateClient == [op |-> "create_client"]

Urlretrieve(url, filename) == [op |-> "urlretrieve", url |-> url, filename |-> filename]

Def(name) == [op |-> "def", name |-> name]

Literal(tokens) == [kind |-> "literal", value |-> Str(tokens)]

Name == [kind |-> "name", value |-> Unbound]

Transcribe(audio_filepath, arg) ==
    [op |-> "transcribe", audio_filepath |-> audio_filepath, prompt |-> arg]

AssignPrompt(instruction) == [op |-> "assign_prompt", instruction |-> instruction]

ShowPrompt == [op |-> "print"]

Cell1 == <<CreateClient>>

\* The second download saved under the first one's local path.
Cell2SamePath ==
    <<Urlretrieve(up_first_remote_filepath, up_first_filepath),
      Urlretrieve(bbq_plans_remote_filepath, up_first_filepath),
      Urlretrieve(product_names_remote_filepath, product_names_filepath)>>

Cell2 ==
    <<Urlretrieve(up_first_remote_filepath, up_first_filepath),
      Urlretrieve(bbq_plans_remote_filepath, bbq_plans_filepath),
      Urlretrieve(product_names_remote_filepath, product_names_filepath)>>

Cell3 == <<Def("transcribe")>>

Cell4 == <<Transcribe(up_first_filepath, Literal(<<>>))>>

Cell5 == <<Transcribe(up_first_filepath, Literal(Prompt5))>>

Cell6 == <<Transcribe(up_first_filepath, Literal(Prompt6))>>

Cell7 == <<Transcribe(up_first_filepath, Literal(Prompt7))>>

Cell8 == <<Transcribe(product_names_filepath, Literal(<<>>))>>

Cell9 == <<Transcribe(product_names_filepath, Literal(Prompt9))>>

Cell10 == <<Transcribe(bbq_plans_filepath, Literal(<<>>))>>

Cell11 == <<Transcribe(bbq_plans_filepath, Literal(Prompt11))>>

Cell12 == <<Transcribe(bbq_plans_filepath, Literal(Prompt12))>>

Cell13 == <<Transcribe(bbq_plans_filepath, Literal(Prompt13))>>

Cell14 == <<Def("fictitious_prompt_from_instruction")>>

Cell15 == <<AssignPrompt(EllipsesInstruction), ShowPrompt>>

Cell16 == <<Transcribe(up_first_filepath, Name)>>

Cell17 ==
    <<AssignPrompt(SouthernInstruction), ShowPrompt, Transcribe(up_first_filepath, Name)>>

Notebook ==
    <<Cell1, Cell2, Cell3, Cell4, Cell5, Cell6, Cell7, Cell8, Cell9, Cell10, Cell11,
      Cell12, Cell13, Cell14, Cell15, Cell16, Cell17>>

\* The value of a prompt argument: a literal, or the global `prompt` at the call.
EvalArg(arg) == IF arg.kind = "name" THEN prompt ELSE arg.value

----------------------------------------------------------------------------
\* One run of the notebook: the cells in order, one statement at a time; an
\* uncaught exception stops the run.

AtStatement(op) ==
    /\ ~halted
    /\ pc = "idle"
    /\ cell <= Len(Notebook)
    /\ Notebook[cell][stmt].op = op

Advance ==
    IF stmt < Len(Notebook[cell])
    THEN cell' = cell /\ stmt' = stmt + 1
    ELSE cell' = cell + 1 /\ stmt' = 1

\* client = OpenAI(api_key=os.environ.get("OPENAI_API_KEY", "<...>"))
\* The constructor sends nothing; it raises only when it is given no key at all
\* (api_key=None), which the default of os.environ.get rules out.
ExecCreateClient ==
    /\ AtStatement("create_client")
    /\ IF ApiKey(env) = None
       THEN /\ halted' = TRUE
            /\ UNCHANGED <<client, cell, stmt>>
       ELSE /\ client' = NewClient(env)
            /\ Advance
            /\ UNCHANGED halted
    /\ UNCHANGED <<pc, frame, inflight, reply, outcome, sent, files, handles, held,
                   prompt, defs, env, requests, lastGenerated,
                   before, calls, fileLog>>

\* urllib.request.urlretrieve(url, filename): the GET goes out.
ExecUrlretrieve ==
    /\ AtStatement("urlretrieve")
    /\ inflight' = Append(inflight,
           [service |-> "download",
            req |-> [url |-> Notebook[cell][stmt].url,
                     filename |-> Notebook[cell][stmt].filename]])
    /\ reply' = NoReply
    /\ pc' = "d_wait"
    /\ fileLog' = Append(fileLog, Fetch(Notebook[cell][stmt].url,
                                        Notebook[cell][stmt].filename))
    /\ UNCHANGED <<frame, outcome, sent, files, handles, held, client, prompt, defs,
                   env, requests, lastGenerated, before, cell,
                   stmt, halted, calls>>

\* The file server answers the outstanding download.
DownloadRespond ==
    /\ pc = "d_wait"
    /\ inflight # <<>>
    /\ Head(inflight).service = "download"
    /\ \E r \in DownloadReplies : reply' = r
    /\ inflight' = Tail(inflight)
    /\ pc' = "d_recv"
    /\ UNCHANGED <<frame, outcome, sent, files, handles, held, client, prompt, defs,
                   env, requests, lastGenerated, before, cell,
                   stmt, halted, calls, fileLog>>

\* urlretrieve returns with the file saved, or raises and stops the run.
UrlretrieveReturn ==
    /\ pc = "d_recv"
    /\ pc' = "idle"
    /\ IF reply.status = "ok"
       THEN /\ files' = [files EXCEPT ![Notebook[cell][stmt].filename] = "present"]
            /\ fileLog' = Append(fileLog, Write(Notebook[cell][stmt].filename))
            /\ Advance
            /\ UNCHANGED halted
       ELSE /\ halted' = TRUE
            /\ UNCHANGED <<files, fileLog, cell, stmt>>
    /\ UNCHANGED <<frame, inflight, reply, outcome, sent, handles, held, client,
                   prompt, defs, env, requests, lastGenerated,
                   before, calls>>

\* def transcribe(...) / def fictitious_prompt_from_instruction(...)
ExecDef ==
    /\ AtStatement("def")
    /\ defs' = defs \cup {Notebook[cell][stmt].name}
    /\ Advance
    /\ UNCHANGED <<pc, frame, inflight, reply, outcome, sent, files, handles, held,
                   client, prompt, env, requests, lastGenerated,
                   before, halted, calls, fileLog>>

\* transcribe(<path>, prompt=<literal or prompt>)
ExecTranscribe ==
    /\ AtStatement("transcribe")
    /\ EvalArg(Notebook[cell][stmt].prompt) # Unbound
    /\ CallTranscribe(Notebook[cell][stmt].audio_filepath,
                      EvalArg(Notebook[cell][stmt].prompt))
    /\ UNCHANGED <<cell, stmt, halted>>

\* prompt = fictitious_prompt_from_instruction(<instruction>): the call.
ExecAssignPrompt ==
    /\ AtStatement("assign_prompt")
    /\ CallFictitious(Notebook[cell][stmt].instruction)
    /\ UNCHANGED <<cell, stmt, halted>>

\* print(prompt)
ExecShowPrompt ==
    /\ AtStatement("print")
    /\ Advance
    /\ UNCHANGED <<pc, frame, inflight, reply, outcome, sent, files, handles, held,
                   client, prompt, defs, env, requests, lastGenerated, before, halted, calls, fileLog>>

\* `prompt` bound only while it is unbound: a later generation does not rebind it.
AfterStatementKeepingFirst(statement, value) ==
    IF statement.op = "assign_prompt" /\ prompt = Unbound THEN value ELSE prompt

\* The global `prompt` once a statement has completed with `value`: the
\* assignments of cells 15 and 17 rebind it, an expression statement does not.
AfterStatement(statement, value) ==
    IF statement.op = "assign_prompt" THEN value ELSE prompt

\* The function called by the current statement has returned or raised: an
\* assignment binds the returned value to `prompt`, an exception stops the run.
CellResume ==
    /\ pc = "returned"
    /\ cell <= Len(Notebook)
    /\ pc' = "idle"
    /\ IF outcome.kind = "raise"
       THEN /\ halted' = TRUE
            /\ UNCHANGED <<cell, stmt, prompt>>
       ELSE /\ Advance
            /\ prompt' = AfterStatement(Notebook[cell][stmt], outcome.value)
            /\ UNCHANGED halted
    /\ frame' = NoFrame
    /\ reply' = NoReply
    /\ outcome' = NoOutcome
    /\ UNCHANGED <<inflight, sent, files, handles, held, client, defs, env, requests,
                   lastGenerated, before, calls, fileLog>>

----------------------------------------------------------------------------
\* A caller of the two functions, outside the notebook's own cells.

\* The prompts the caller passes: empty, short, longer than the prompt window,
\* and whatever `prompt` holds (a generated text, possibly None).
CallerPrompts ==
    {Str(<<>>), Str(Prompt5), LongText} \cup (IF prompt = Unbound THEN {} ELSE {prompt})

CallerTranscribe ==
    /\ calls < MaxCalls
    /\ \E audio_filepath \in Paths, p \in CallerPrompts :
           CallTranscribe(audio_filepath, p)
    /\ UNCHANGED <<cell, stmt, halted>>

CallerFictitious ==
    /\ calls < MaxCalls
    /\ \E instruction \in Instructions : CallFictitious(instruction)
    /\ UNCHANGED <<cell, stmt, halted>>

\* The caller takes the outcome, which ends the call; a generated text may be
\* kept in `prompt`.
CallerResume ==
    /\ pc = "returned"
    /\ pc' = "idle"
    /\ IF frame.fn = "fictitious_prompt_from_instruction" /\ outcome.kind = "return"
       THEN prompt' \in {prompt, outcome.value}
       ELSE UNCHANGED prompt
    /\ frame' = NoFrame
    /\ reply' = NoReply
    /\ outcome' = NoOutcome
    /\ UNCHANGED <<inflight, sent, files, handles, held, client, defs, env, requests,
                   lastGenerated, before, cell, stmt, halted, calls, fileLog>>

----------------------------------------------------------------------------
\* Specifications.

\* A fresh kernel in a fresh directory; the credential is set or not.
Init ==
    /\ pc = "idle"
    /\ frame = NoFrame
    /\ inflight = <<>>
    /\ reply = NoReply
    /\ outcome = NoOutcome
    /\ sent = 0
    /\ files = [path \in Paths |-> "absent"]
    /\ handles = [path \in Paths |-> 0]
    /\ held = FALSE
    /\ client = Unbound
    /\ prompt = Unbound
    /\ defs = {}
    /\ env \in {Unbound, Str(<<"sk-example">>)}
    /\ requests = <<>>
    /\ lastGenerated = Unbound
    /\ before = [files |-> files, client |-> client, prompt |-> prompt, defs |-> defs]
    /\ cell = 1
    /\ stmt = 1
    /\ halted = FALSE
    /\ calls = 0
    /\ fileLog = <<>>

\* The functions' own steps and those of the services and the runtime.
FunctionSteps ==
    \/ TranscribeOpen
    \/ TranscribeSend
    \/ TranscriptionRespond
    \/ TranscribeReturn
    \/ FictitiousSend
    \/ ChatRespond
    \/ FictitiousReturn
    \/ GarbageCollect

Next ==
    \/ ExecCreateClient
    \/ ExecUrlretrieve
    \/ DownloadRespond
    \/ UrlretrieveReturn
    \/ ExecDef
    \/ ExecTranscribe
    \/ ExecAssignPrompt
    \/ ExecShowPrompt
    \/ CellResume
    \/ FunctionSteps

Spec == Init /\ [][Next]_vars

\* The kernel after cells 1, 3 and 14, created without the credential, with one
\* audio file missing.
InitCalls ==
    /\ pc = "idle"
    /\ frame = NoFrame
    /\ inflight = <<>>
    /\ reply = NoReply
    /\ outcome = NoOutcome
    /\ sent = 0
    /\ files = [path \in Paths |-> IF path = bbq_plans_filepath THEN "absent" ELSE "present"]
    /\ handles = [path \in Paths |-> 0]
    /\ held = FALSE
    /\ env = Unbound
    /\ client = NewClient(env)
    /\ prompt = Unbound
    /\ defs = {"transcribe", "fictitious_prompt_from_instruction"}
    /\ requests = <<>>
    /\ lastGenerated = Unbound
    /\ before = [files |-> files, client |-> client, prompt |-> prompt, defs |-> defs]
    /\ cell = Len(Notebook) + 1
    /\ stmt = 1
    /\ halted = FALSE
    /\ calls = 0
    /\ fileLog = <<>>

NextCalls ==
    \/ CallerTranscribe
    \/ CallerFictitious
    \/ CallerResume
    \/ FunctionSteps

SpecCalls == InitCalls /\ [][NextCalls]_vars

\* The steps the thread of control takes by itself inside the two functions: the
\* kernel runs a started call on, nothing suspends it.
CodeSteps ==
    \/ TranscribeOpen
    \/ TranscribeSend
    \/ TranscribeReturn
    \/ FictitiousSend
    \/ FictitiousReturn

\* The answers of the two services to the blocking create() calls.
ServiceAnswers ==
    \/ TranscriptionRespond
    \/ ChatRespond

\* One run of the notebook in which the thread keeps running and the services
\* answer every request they are sent, with a response or with a failure.
SpecFair == Spec /\ WF_vars(CodeSteps) /\ WF_vars(ServiceAnswers)

----------------------------------------------------------------------------
\* Properties.

InTranscribe == pc \in {"t_open", "t_send", "t_wait", "t_recv"}

InFictitious == pc \in {"f_send", "f_wait", "f_recv"}

\* Blocked in create(), the request sent and not answered yet.
Waiting == pc \in {"t_wait", "f_wait"}

\* C1: for every audio file path and every prompt, the empty one and those
\* longer than 224 tokens included, the request transcribe sends carries the
\* caller's prompt unchanged, the model "whisper-1" and the file opened from
\* exactly the given path.
C1_RequestCarriesCallerPrompt ==
    /\ \A i \in DOMAIN requests :
         requests[i].call.fn = "transcribe" =>
           requests[i].req =
             [file |-> [name |-> requests[i].call.audio_filepath, mode |-> "rb"],
              model |-> "whisper-1",
              prompt |-> requests[i].call.prompt]
    /\ pc = "t_wait" =>
         inflight =
           <<[service |-> "transcription",
              req |-> [file |-> [name |-> frame.audio_filepath, mode |-> "rb"],
                       model |-> "whisper-1",
                       prompt |-> frame.prompt]]>>

\* A request with a prompt longer than the window is outstanding, after one with
\* the empty prompt was sent.
C1_Witness ==
    /\ pc = "t_wait"
    /\ Len(frame.prompt.val) > PromptWindow
    /\ Len(Head(inflight).req.prompt.val) = Len(frame.prompt.val)
    /\ \E i \in DOMAIN requests :
         requests[i].call.fn = "transcribe" /\ requests[i].req.prompt = Str(<<>>)

\* C2 as stated: every invocation of either function has issued exactly one
\* request by the time it returns or raises.
C2_ExactlyOneRequestPerCall == pc = "returned" => sent = 1

\* C2 as amended: an invocation never issues more than one request (a failed
\* request is not re-sent), and by the time it returns or raises it has issued
\* exactly one, except that a transcribe whose audio file cannot be opened has
\* issued none.
C2_AtMostOneRequestPerCall ==
    /\ sent <= 1
    /\ pc = "returned" =>
         sent = IF frame.fn = "transcribe" /\ before.files[frame.audio_filepath] = "absent"
                THEN 0 ELSE 1

\* A call has ended on a failed request, which was sent once.
C2_Witness ==
    /\ pc = "returned"
    /\ reply.status = "error"
    /\ outcome.kind = "raise"
    /\ sent = 1

\* C3: when the external call of either function fails, the same failure
\* reaches the caller: it is raised, not returned and not replaced.
C3_FailureReachesCaller ==
    (pc = "returned" /\ reply.status = "error") =>
        /\ outcome.kind = "raise"
        /\ outcome.error = reply.error
        /\ outcome.value = Unbound

\* transcribe has ended on the service's rejection of the file.
C3_Witness ==
    /\ pc = "returned"
    /\ frame.fn = "transcribe"
    /\ reply = Failure("BadRequestError")
    /\ outcome.kind = "raise"
    /\ outcome.error = "BadRequestError"

\* C4: the request fictitious_prompt_from_instruction sends holds exactly two
\* messages, the fixed system message and then a user message with the caller's
\* instruction verbatim, with model "gpt-4o-mini" and temperature 0.
C4_ChatRequestShape ==
    /\ \A i \in DOMAIN requests :
         requests[i].call.fn = "fictitious_prompt_from_instruction" =>
           /\ requests[i].req.model = "gpt-4o-mini"
           /\ requests[i].req.temperature = 0
           /\ Len(requests[i].req.messages) = 2
           /\ requests[i].req.messages[1] = [role |-> "system", content |-> SystemMessage]
           /\ requests[i].req.messages[2] =
                [role |-> "user", content |-> requests[i].call.instruction]
           /\ DOMAIN requests[i].req = {"model", "temperature", "messages"}
    /\ pc = "f_wait" =>
         /\ Len(inflight) = 1
         /\ Head(inflight).service = "chat"
         /\ Head(inflight).req = requests[Len(requests)].req
         /\ requests[Len(requests)].call = frame

\* Both instructions have been sent, the second request is outstanding.
C4_Witness ==
    /\ pc = "f_wait"
    /\ frame.instruction = SouthernInstruction
    /\ Head(inflight).req.messages[2].content = SouthernInstruction
    /\ \E i \in DOMAIN requests : requests[i].call.instruction = EllipsesInstruction

\* C5: no history is retained: two calls with equal arguments send equal
\* requests, whatever was called in between.
C5_EqualCallsSendEqualRequests ==
    \A i, j \in DOMAIN requests :
        requests[i].call = requests[j].call => requests[i].req = requests[j].req

\* transcribe was called twice with the same arguments, with a generation in
\* between whose text was kept in `prompt`.
C5_Witness ==
    /\ Len(requests) = 3
    /\ requests[1].call.fn = "transcribe"
    /\ requests[2].call.fn = "fictitious_prompt_from_instruction"
    /\ requests[3].call = requests[1].call
    /\ prompt # Unbound

\* C6: at most one external call is outstanding at a time during a run of the
\* notebook, and while it is the thread of control waits for it.
C6_OneOutstandingCall ==
    /\ Len(inflight) <= 1
    /\ inflight # <<>> => pc \in {"d_wait", "t_wait", "f_wait"}

\* A call is outstanding after earlier ones (the downloads and a transcription)
\* have been answered.
C6_Witness ==
    /\ Len(inflight) = 1
    /\ pc = "t_wait"
    /\ Len(requests) >= 2
    /\ \A path \in Paths : files[path] = "present"

\* C7: after transcribe returns or raises the local state is as before the call:
\* no file written, no global changed, and the handle it opened no longer held.
C7_TranscribeLeavesNoLocalEffect ==
    (pc = "returned" /\ frame.fn = "transcribe") =>
        /\ files = before.files
        /\ client = before.client
        /\ prompt = before.prompt
        /\ defs = before.defs
        /\ ~held

\* C9: in the generate-then-transcribe sequence of the notebook, the prompt
\* transcribe receives is the text the most recent generation returned, and
\* nothing changes `prompt` between the generation and the transcription.
C9_TranscribeGetsLatestGeneration ==
    /\ pc = "idle" => prompt = lastGenerated
    /\ (InTranscribe /\ cell <= Len(Notebook)
          /\ Notebook[cell][stmt].prompt.kind = "name") =>
         frame.prompt = lastGenerated

\* The transcription of cell 17 is outstanding with the text generated in cell 17,
\* which differs from the one cell 16 was given.
C9_Witness ==
    /\ cell = 17
    /\ pc = "t_wait"
    /\ Head(inflight).req.prompt = lastGenerated
    /\ \E i \in DOMAIN requests :
         /\ i - 1 \in DOMAIN requests
         /\ i + 1 \in DOMAIN requests
         /\ requests[i - 1].call.fn = "fictitious_prompt_from_instruction"
         /\ requests[i].call.fn = "transcribe"
         /\ requests[i + 1].call.fn = "fictitious_prompt_from_instruction"
         /\ requests[i].call.prompt # frame.prompt

\* C10: whenever fictitious_prompt_from_instruction returns without raising, its
\* result is a non-empty string, never None and never the empty string.
C10_GeneratorReturnsNonEmptyText ==
    (pc = "returned" /\ frame.fn = "fictitious_prompt_from_instruction"
       /\ outcome.kind = "return") =>
        /\ outcome.value.type = "str"
        /\ outcome.value.val # <<>>

\* C12: when the service call succeeds, transcribe returns exactly the text of
\* the response and fictitious_prompt_from_instruction exactly the message
\* content of the first choice, unaltered; further choices are ignored.
C12_ReturnsResponseTextUnaltered ==
    (pc = "returned" /\ reply.status = "ok") =>
        /\ outcome.kind = "return"
        /\ outcome.error = "none"
        /\ frame.fn = "transcribe" => outcome.value = reply.text
        /\ frame.fn = "fictitious_prompt_from_instruction" =>
              outcome.value = reply.choices[1].message.content

\* A generation has returned the content of the first of two choices, which
\* differs from the second, in a session that also called transcribe.
C12_Witness ==
    /\ pc = "returned"
    /\ frame.fn = "fictitious_prompt_from_instruction"
    /\ reply.status = "ok"
    /\ Len(reply.choices) = 2
    /\ reply.choices[2].message.content # reply.choices[1].message.content
    /\ outcome = Return(reply.choices[1].message.content)
    /\ \E i \in DOMAIN requests : requests[i].call.fn = "transcribe"

\* C14: if the audio file cannot be opened for reading, transcribe raises the
\* file-open error before any request is sent: that call sends nothing, and no
\* request is ever issued for a file that is not there.
C14_OpenFailureSendsNothing ==
    /\ (InTranscribe /\ files[frame.audio_filepath] = "absent") =>
          /\ pc = "t_open"
          /\ sent = 0
          /\ inflight = <<>>
    /\ (pc = "returned" /\ frame.fn = "transcribe"
           /\ before.files[frame.audio_filepath] = "absent") =>
          /\ outcome = Raise("FileNotFoundError")
          /\ reply = NoReply
          /\ sent = 0
          /\ inflight = <<>>
    /\ \A i \in DOMAIN requests :
          requests[i].call.fn = "transcribe" =>
            files[requests[i].call.audio_filepath] # "absent"

\* transcribe on the missing file has raised FileNotFoundError with nothing
\* sent, in a session whose other calls did send their requests.
C14_Witness ==
    /\ pc = "returned"
    /\ frame.fn = "transcribe"
    /\ files[frame.audio_filepath] = "absent"
    /\ outcome = Raise("FileNotFoundError")
    /\ sent = 0
    /\ requests # <<>>
    /\ \A i \in DOMAIN requests : requests[i].call.audio_filepath # frame.audio_filepath

\* C15: creating the client never fails for a missing credential: with
\* OPENAI_API_KEY unset the client is built with the fixed placeholder key, and
\* nothing is sent while it is built; the missing credential can show up only
\* at the first request to the service, whose authentication failure is raised
\* to the caller.
C15_ClientCreatedWithoutCredential ==
    /\ ~(halted /\ cell = 1)
    /\ cell = 1 => (client = Unbound /\ inflight = <<>> /\ requests = <<>>)
    /\ cell > 1 =>
          client = [type |-> "OpenAI",
                    val |-> IF env = Unbound THEN <<PlaceholderKey>> ELSE env.val]
    /\ (halted /\ requests = <<>>) => cell = 2
    /\ (pc = "returned" /\ reply = Failure("AuthenticationError")) =>
          outcome = Raise("AuthenticationError")

\* With the variable unset the client holds the placeholder key, and the first
\* request made with it (cell 4) has failed authentication, which transcribe
\* raised.
C15_Witness ==
    /\ env = Unbound
    /\ client = [type |-> "OpenAI", val |-> <<PlaceholderKey>>]
    /\ cell = 4
    /\ pc = "returned"
    /\ Len(requests) = 1
    /\ reply = Failure("AuthenticationError")
    /\ outcome = Raise("AuthenticationError")

\* C13: provided the services answer every request, every call of transcribe
\* and of fictitious_prompt_from_instruction eventually returns or raises, and
\* does so as soon as its request is answered; there is no timeout and no
\* cancellation: a waiting call leaves the wait only by the service's answer, so
\* a call whose request is never answered never completes.
C13_CallsCompleteWhenAnswered ==
    /\ (InTranscribe \/ InFictitious) ~> (pc = "returned")
    /\ [][(Waiting /\ pc' # pc) =>
            /\ inflight # <<>>
            /\ inflight' = Tail(inflight)
            /\ reply = NoReply
            /\ reply'.status \in {"ok", "error"}
            /\ pc' = (IF pc = "t_wait" THEN "t_recv" ELSE "f_recv")]_vars
    /\ [][(pc \in {"t_recv", "f_recv"} /\ pc' # pc) => pc' = "returned"]_vars

\* The generation of cell 15 waits for its answer, after the thirteen
\* transcriptions before it were answered and returned.
C13_Witness ==
    /\ pc = "f_wait"
    /\ cell = 15
    /\ Len(inflight) = 1
    /\ reply = NoReply
    /\ Len(requests) = 11

\* C11: in a run of the notebook each audio file is fetched from its own fixed
\* URL and never twice, exactly once in every run that gets past the download
\* cell; transcribe is called on a file only after its download has completed;
\* and the download's save is the only write the file ever sees: afterwards it
\* stays in place and is opened for reading only.
C11_FilesFetchedOnceThenOnlyRead ==
    LET fixedUrl(path) ==
            CASE path = up_first_filepath -> up_first_remote_filepath
              [] path = bbq_plans_filepath -> bbq_plans_remote_filepath
              [] path = product_names_filepath -> product_names_remote_filepath
        fetches(path) ==
            {i \in DOMAIN fileLog :
                fileLog[i].op = "fetch" /\ fileLog[i].filename = path}
        writes(path) ==
            {i \in DOMAIN fileLog :
                fileLog[i].op = "write" /\ fileLog[i].filename = path}
    IN  /\ \A i \in DOMAIN fileLog :
              /\ fileLog[i].filename \in Paths
              /\ fileLog[i].op = "fetch" =>
                    fileLog[i].url = fixedUrl(fileLog[i].filename)
        /\ \A path \in Paths :
              /\ Cardinality(fetches(path)) <= 1
              /\ Cardinality(writes(path)) <= 1
              /\ \A w \in writes(path) : w - 1 \in fetches(path)
              /\ files[path] = "present" <=> writes(path) # {}
              /\ cell > 2 =>
                    (Cardinality(fetches(path)) = 1 /\ files[path] = "present")
        /\ InTranscribe =>
              /\ cell > 2
              /\ writes(frame.audio_filepath) # {}
        /\ \A i \in DOMAIN requests :
              requests[i].call.fn = "transcribe" =>
                /\ writes(requests[i].call.audio_filepath) # {}
                /\ requests[i].req.file.mode = "rb"

\* The first transcription of the third audio file is outstanding: the three
\* downloads are the whole history of the files, six transcriptions later.
C11_Witness ==
    /\ cell = 10
    /\ pc = "t_wait"
    /\ frame.audio_filepath = bbq_plans_filepath
    /\ Len(requests) = 7
    /\ fileLog =
         <<Fetch(up_first_remote_filepath, up_first_filepath),
           Write(up_first_filepath),
           Fetch(bbq_plans_remote_filepath, bbq_plans_filepath),
           Write(bbq_plans_filepath),
           Fetch(product_names_remote_filepath, product_names_filepath),
           Write(product_names_filepath)>>

====
